---- MODULE Spec2Model ----
(***************************************************************************)
(* Model of the instance generators of problem_instances/:                 *)
(*   covering_designs/generate.py   is_sorted_subset, generate_covering_-  *)
(*                                  design and the batch driver            *)
(*   noise_dosage/generate.py       NoiseDosage, write, read_noise_dosage, *)
(*                                  generate_noise_dosage and the driver   *)
(*   noise_dosage/data_generator.py generate_instance and the driver       *)
(* Each subsystem has its own specification (SpecSubset, SpecCover, ...);  *)
(* the variables of the other subsystems stay at their idle values.        *)
(* Python floats are modelled as integers counting a fixed unit, so that   *)
(* arithmetic is exact and the '{:e}' rounding is visible.                 *)
(***************************************************************************)
EXTENDS Integers, Sequences, FiniteSets, TLC

VARIABLES
    \* is_sorted_subset
    ss_subset, ss_superset, ss_i, ss_pos, ss_a, ss_pc, ss_ret,
    \* generate_covering_design
    cd_lamb, cd_v, cd_k, cd_t, cd_set_k, cd_set_t, cd_x, cd_cons, cd_obj, cd_pc,
    \* NoiseDosage, NoiseDosage.write, read_noise_dosage
    io_args, io_inst, io_file, io_edits, io_read, io_pc,
    \* generate_noise_dosage
    nd_inst, nd_plain, nd_sym, nd_pc,
    \* generate_instance, called twice with the same arguments
    gi_args, gi_global, gi_other, gi_call, gi_rgen, gi_d, gi_t, gi_alpha,
    gi_pc, gi_out, gi_files,
    \* the batch drivers
    bd_driver, bd_data, bd_fs, bd_writes, bd_run, bd_pos, bd_todo, bd_entry, bd_pc

ssVars == <<ss_subset, ss_superset, ss_i, ss_pos, ss_a, ss_pc, ss_ret>>
cdVars == <<cd_lamb, cd_v, cd_k, cd_t, cd_set_k, cd_set_t, cd_x, cd_cons, cd_obj, cd_pc>>
ioVars == <<io_args, io_inst, io_file, io_edits, io_read, io_pc>>
ndVars == <<nd_inst, nd_plain, nd_sym, nd_pc>>
giVars == <<gi_args, gi_global, gi_other, gi_call, gi_rgen, gi_d, gi_t, gi_alpha,
            gi_pc, gi_out, gi_files>>
bdVars == <<bd_driver, bd_data, bd_fs, bd_writes, bd_run, bd_pos, bd_todo, bd_entry,
            bd_pc>>

vars == <<ssVars, cdVars, ioVars, ndVars, giVars, bdVars>>

(***************************************************************************)
(* Bounds of the model                                                     *)
(***************************************************************************)
MaxLen == 3        \* longest subset / superset sequence of the subset scan
MaxVal == 3        \* largest element of those sequences
MaxLamb == 2       \* largest multiplicity lamb of a covering design
MaxV == 4          \* largest ground-set size v of a covering design
MaxMach == 2       \* largest machine count / list length given to NoiseDosage
MaxEdits == 1      \* edits made to a written instance file before it is read
MaxMachines == 2   \* largest machine count m of a scheduling instance
MaxWorkers == 2    \* largest worker count n of a scheduling instance
MaxHours == 2      \* largest hour budget total_hours of a scheduling instance
MaxGenMachines == 2 \* largest n_machines given to generate_instance
MaxSeed == 2       \* largest seed given to generate_instance
MaxOtherDraws == 2 \* draws other code takes from the global random source
MaxBatchV == 3     \* the covering-design driver's vs = ks = ts = 1..MaxBatchV
MaxPairs == 2      \* machine/worker pairs of the data generator's driver
MaxRuns == 2       \* times a batch driver is run

(***************************************************************************)
(* Generic helpers                                                         *)
(***************************************************************************)
Range(s) == {s[x] : x \in DOMAIN s}

\* ascending (not necessarily strictly) sequences over 1..hi of length <= n
SortedSeqs(hi, n) ==
    {s \in UNION {[1..l -> 1..hi] : l \in 0..n} :
        \A x \in 1..(Len(s) - 1) : s[x] <= s[x + 1]}

(***************************************************************************)
(* is_sorted_subset(subset, superset)      covering_designs/generate.py    *)
(* ss_i is Python's 0-based index i; superset[i] is ss_superset[ss_i + 1]. *)
(***************************************************************************)
\* superset[i] raises IndexError exactly when i is past the end (i is never
\* negative here, so Python's negative indexing does not come into play)
IndexError(seq, idx) == idx >= Len(seq)

\* the scan without its try/except: the IndexError reaches the caller
ExceptIndexErrorReraise == "IndexError"

\* line 18-19: except IndexError: return False
ExceptIndexError == "False"

SsInit ==
    /\ ss_subset \in SortedSeqs(MaxVal, MaxLen)
    /\ ss_superset \in SortedSeqs(MaxVal, MaxLen)
    /\ ss_i = 0
    /\ ss_pos = 0
    /\ ss_a = 0
    /\ ss_pc = "for"
    /\ ss_ret = "none"

SsIdle ==
    /\ ss_subset = <<>>
    /\ ss_superset = <<>>
    /\ ss_i = 0
    /\ ss_pos = 0
    /\ ss_a = 0
    /\ ss_pc = "idle"
    /\ ss_ret = "none"

\* line 10: for a in subset  /  line 17: return True
SsFor ==
    /\ ss_pc = "for"
    /\ IF ss_pos = Len(ss_subset)
         THEN /\ ss_ret' = "True"
              /\ ss_pc' = "done"
              /\ UNCHANGED <<ss_a, ss_pos>>
         ELSE /\ ss_a' = ss_subset[ss_pos + 1]
              /\ ss_pos' = ss_pos + 1
              /\ ss_pc' = "while"
              /\ UNCHANGED ss_ret
    /\ UNCHANGED <<ss_subset, ss_superset, ss_i>>
    /\ UNCHANGED <<cdVars, ioVars, ndVars, giVars, bdVars>>

\* line 11-12: while superset[i] < a: i += 1
SsWhile ==
    /\ ss_pc = "while"
    /\ IF IndexError(ss_superset, ss_i)
         THEN /\ ss_ret' = ExceptIndexError
              /\ ss_pc' = "done"
              /\ UNCHANGED ss_i
         ELSE IF ss_superset[ss_i + 1] < ss_a
                THEN /\ ss_i' = ss_i + 1
                     /\ UNCHANGED <<ss_pc, ss_ret>>
                ELSE /\ ss_pc' = "if"
                     /\ UNCHANGED <<ss_i, ss_ret>>
    /\ UNCHANGED <<ss_subset, ss_superset, ss_pos, ss_a>>
    /\ UNCHANGED <<cdVars, ioVars, ndVars, giVars, bdVars>>

\* line 13-16: if superset[i] == a: continue / return False
SsIf ==
    /\ ss_pc = "if"
    /\ IF IndexError(ss_superset, ss_i)
         THEN /\ ss_ret' = ExceptIndexError
              /\ ss_pc' = "done"
         ELSE IF ss_superset[ss_i + 1] = ss_a
                THEN /\ ss_pc' = "for"
                     /\ UNCHANGED ss_ret
                ELSE /\ ss_ret' = "False"
                     /\ ss_pc' = "done"
    /\ UNCHANGED <<ss_subset, ss_superset, ss_i, ss_pos, ss_a>>
    /\ UNCHANGED <<cdVars, ioVars, ndVars, giVars, bdVars>>

SsNext == SsFor \/ SsWhile \/ SsIf


\* C1: for ascending-sorted subset and superset (empty ones included) the
\* scan ends with True exactly when every element of subset occurs in
\* superset; running past the end of superset gives False, never an escaping
\* IndexError.
C1_SubsetTest ==
    ss_pc = "done" =>
        /\ ss_ret \in {"True", "False"}
        /\ (ss_ret = "True") <=> (Range(ss_subset) \subseteq Range(ss_superset))

\* the scan ran past the end of a superset with elements and answered False
C1_Witness ==
    /\ ss_pc = "done"
    /\ ss_ret = "False"
    /\ ss_superset # <<>>
    /\ IndexError(ss_superset, ss_i)

(***************************************************************************)
(* is_sorted_subset as a function of its arguments, for the callers.       *)
(***************************************************************************)
RECURSIVE SkipWhile(_, _, _)
\* line 11-12: the index the while loop stops at, -1 when superset[i] raises
SkipWhile(superset, idx, a) ==
    IF IndexError(superset, idx) THEN -1
    ELSE IF superset[idx + 1] < a THEN SkipWhile(superset, idx + 1, a)
    ELSE idx

RECURSIVE SkipIf(_, _, _)
\* the scan with `if` in place of `while`: skips at most one element
SkipIf(superset, idx, a) ==
    IF IndexError(superset, idx) THEN -1
    ELSE IF superset[idx + 1] < a
           THEN (IF IndexError(superset, idx + 1) THEN -1 ELSE idx + 1)
    ELSE idx

RECURSIVE ScanFrom(_, _, _, _)
\* line 10-17 from element number pos of subset with index idx
ScanFrom(subset, superset, pos, idx) ==
    IF pos = Len(subset) THEN TRUE
    ELSE LET a == subset[pos + 1]
             j == SkipWhile(superset, idx, a)
         IN  IF j = -1 THEN FALSE
             ELSE IF superset[j + 1] = a
                    THEN ScanFrom(subset, superset, pos + 1, j)
                    ELSE FALSE

RECURSIVE ScanFromIf(_, _, _, _)
ScanFromIf(subset, superset, pos, idx) ==
    IF pos = Len(subset) THEN TRUE
    ELSE LET a == subset[pos + 1]
             j == SkipIf(superset, idx, a)
         IN  IF j = -1 THEN FALSE
             ELSE IF superset[j + 1] = a
                    THEN ScanFromIf(subset, superset, pos + 1, j)
                    ELSE FALSE

is_sorted_subset_if(subset, superset) == ScanFromIf(subset, superset, 0, 0)

is_sorted_subset(subset, superset) == ScanFrom(subset, superset, 0, 0)

(***************************************************************************)
(* generate_covering_design(lamb, v, k, t)  covering_designs/generate.py   *)
(***************************************************************************)
RECURSIVE CombFrom(_, _, _)
\* the r-element ascending sequences over lo..n-1 in lexicographic order
CombFrom(lo, n, r) ==
    IF r = 0 THEN << <<>> >>
    ELSE IF lo >= n THEN <<>>
    ELSE LET withLo == CombFrom(lo + 1, n, r - 1)
         IN  [x \in 1..Len(withLo) |-> <<lo>> \o withLo[x]]
                 \o CombFrom(lo + 1, n, r)

\* line 30-31: list(map(list, itertools.combinations(range(n), r=r)))
Combinations(n, r) == CombFrom(0, n, r)

CdInit ==
    /\ cd_lamb \in 1..MaxLamb
    /\ cd_v \in 1..MaxV
    /\ cd_k \in 1..(cd_v - 1)
    /\ cd_t \in 0..(cd_k - 1)
    /\ cd_set_k = <<>>
    /\ cd_set_t = <<>>
    /\ cd_x = <<>>
    /\ cd_cons = <<>>
    /\ cd_obj = "none"
    /\ cd_pc = "enumerate"

CdIdle ==
    /\ cd_lamb = 0
    /\ cd_v = 0
    /\ cd_k = 0
    /\ cd_t = 0
    /\ cd_set_k = <<>>
    /\ cd_set_t = <<>>
    /\ cd_x = <<>>
    /\ cd_cons = <<>>
    /\ cd_obj = "none"
    /\ cd_pc = "idle"

\* line 30-31
CdEnumerate ==
    /\ cd_pc = "enumerate"
    /\ cd_set_k' = Combinations(cd_v, cd_k)
    /\ cd_set_t' = Combinations(cd_v, cd_t)
    /\ cd_pc' = "vars"
    /\ UNCHANGED <<cd_lamb, cd_v, cd_k, cd_t, cd_x, cd_cons, cd_obj>>
    /\ UNCHANGED <<ssVars, ioVars, ndVars, giVars, bdVars>>

\* line 33-36: one step of the dict comprehension, x[j] for entry j of set_k
\* (Python's j is 0-based; x[j] is cd_x[j + 1])
CdAddVar ==
    /\ cd_pc = "vars"
    /\ IF Len(cd_x) < Len(cd_set_k)
         THEN /\ cd_x' = Append(cd_x, [entries |-> cd_set_k[Len(cd_x) + 1],
                                       vtype |-> "I", lb |-> 0, ub |-> cd_lamb])
              /\ UNCHANGED cd_pc
         ELSE /\ cd_pc' = "cons"
              /\ UNCHANGED cd_x
    /\ UNCHANGED <<cd_lamb, cd_v, cd_k, cd_t, cd_set_k, cd_set_t, cd_cons, cd_obj>>
    /\ UNCHANGED <<ssVars, ioVars, ndVars, giVars, bdVars>>

\* line 38-41: one pass of the loop over set_t
CdAddCons ==
    /\ cd_pc = "cons"
    /\ IF Len(cd_cons) < Len(cd_set_t)
         THEN LET entries_t == cd_set_t[Len(cd_cons) + 1]
              IN  /\ cd_cons' = Append(cd_cons,
                        [entries |-> entries_t,
                         terms |-> {j \in 1..Len(cd_set_k) :
                                       is_sorted_subset(entries_t, cd_set_k[j])},
                         sense |-> ">=", rhs |-> cd_lamb])
                  /\ UNCHANGED cd_pc
         ELSE /\ cd_pc' = "objective"
              /\ UNCHANGED cd_cons
    /\ UNCHANGED <<cd_lamb, cd_v, cd_k, cd_t, cd_set_k, cd_set_t, cd_x, cd_obj>>
    /\ UNCHANGED <<ssVars, ioVars, ndVars, giVars, bdVars>>

\* line 43-44
CdSetObjective ==
    /\ cd_pc = "objective"
    /\ cd_obj' = [terms |-> DOMAIN cd_x, sense |-> "minimize"]
    /\ cd_pc' = "done"
    /\ UNCHANGED <<cd_lamb, cd_v, cd_k, cd_t, cd_set_k, cd_set_t, cd_x, cd_cons>>
    /\ UNCHANGED <<ssVars, ioVars, ndVars, giVars, bdVars>>

CdNext == CdEnumerate \/ CdAddVar \/ CdAddCons \/ CdSetObjective

RECURSIVE Binomial(_, _)
Binomial(n, r) ==
    IF r = 0 THEN 1
    ELSE IF n = 0 THEN 0
    ELSE Binomial(n - 1, r - 1) + Binomial(n - 1, r)

SubsetsOfSize(n, r) == {S \in SUBSET (0..(n - 1)) : Cardinality(S) = r}

\* C2: the finished covering-design model has exactly C(v,k) integer
\* variables bounded 0..lamb, one per k-subset of {0..v-1}, exactly C(v,t)
\* constraints, one per t-subset T, each requiring the sum of the variables
\* of exactly the k-subsets containing T to be >= lamb, and it minimises the
\* sum of all variables.
C2_CoveringModel ==
    cd_pc = "done" =>
        /\ Len(cd_x) = Binomial(cd_v, cd_k)
        /\ {Range(cd_x[j].entries) : j \in DOMAIN cd_x} = SubsetsOfSize(cd_v, cd_k)
        /\ \A j \in DOMAIN cd_x :
              /\ cd_x[j].vtype = "I" /\ cd_x[j].lb = 0 /\ cd_x[j].ub = cd_lamb
              /\ Len(cd_x[j].entries) = cd_k
        /\ Len(cd_cons) = Binomial(cd_v, cd_t)
        /\ {Range(cd_cons[c].entries) : c \in DOMAIN cd_cons}
               = SubsetsOfSize(cd_v, cd_t)
        /\ \A c \in DOMAIN cd_cons :
              /\ cd_cons[c].terms =
                     {j \in DOMAIN cd_x :
                         Range(cd_cons[c].entries) \subseteq Range(cd_x[j].entries)}
              /\ cd_cons[c].sense = ">="
              /\ cd_cons[c].rhs = cd_lamb
        /\ cd_obj = [terms |-> DOMAIN cd_x, sense |-> "minimize"]

\* a finished model whose t-subsets have two elements and are each contained
\* in some but not all of the blocks
C2_Witness ==
    /\ cd_pc = "done"
    /\ cd_t = 2
    /\ cd_k = 3
    /\ \E c \in DOMAIN cd_cons :
          cd_cons[c].terms # {} /\ cd_cons[c].terms # DOMAIN cd_x

(***************************************************************************)
(* Python values and the text of an instance file                          *)
(* A float is the integer count of a fixed unit (one thousandth); a Python *)
(* value carries its type so that isinstance, str() and int() see it.      *)
(***************************************************************************)
PyInt(n) == [ty |-> "int", v |-> n]
PyFloat(x) == [ty |-> "float", v |-> x]

Abs(x) == IF x < 0 THEN -x ELSE x

RECURSIVE Pow10(_)
Pow10(e) == IF e = 0 THEN 1 ELSE 10 * Pow10(e - 1)

RECURSIVE Digits(_)
Digits(n) == IF n < 10 THEN 1 ELSE 1 + Digits(n \div 10)

\* n / 10^drop rounded to the nearest integer, ties to even
RoundHalfEven(n, drop) ==
    LET q == n \div Pow10(drop)
        r == n % Pow10(drop)
        half == 5 * Pow10(drop - 1)
    IN  IF r > half \/ (r = half /\ q % 2 = 1) THEN q + 1 ELSE q

\* line 46, 48: "{:e}".format(x): seven significant digits d.dddddd (mant)
\* and a decimal exponent (exp, counted in the unit); the text stands for
\* mant * 10^(exp - 6) units
FormatE(x) ==
    LET n == Abs(x)
        D == Digits(n)
    IN  IF n = 0 THEN [k |-> "e", neg |-> FALSE, mant |-> 0, exp |-> 0]
        ELSE IF D <= 7
          THEN [k |-> "e", neg |-> x < 0, mant |-> n * Pow10(7 - D), exp |-> D - 1]
        ELSE LET q == RoundHalfEven(n, D - 7)
             IN  IF q = Pow10(7)
                   THEN [k |-> "e", neg |-> x < 0, mant |-> Pow10(6), exp |-> D]
                   ELSE [k |-> "e", neg |-> x < 0, mant |-> q, exp |-> D - 1]

\* line 45, 47, 49: str(x) / f"{x}": digits for an int, the shortest
\* repr ("2.5") for a float
Str(pv) == IF pv.ty = "int" THEN [k |-> "int", v |-> pv.v]
                            ELSE [k |-> "repr", v |-> pv.v]

Junk == [k |-> "junk"]

\* line 55, 57, 59: int(token) raises ValueError unless the text is an integer
IntOk(tok) == tok.k = "int"

\* line 56, 58: float(token) raises ValueError unless the text is a number
FloatOk(tok) == tok.k \in {"int", "e", "repr"}

Float(tok) ==
    IF tok.k = "int" THEN tok.v * 1000
    ELSE IF tok.k = "repr" THEN tok.v
    ELSE LET n == IF tok.exp >= 6 THEN tok.mant * Pow10(tok.exp - 6)
                                  ELSE tok.mant \div Pow10(6 - tok.exp)
         IN  IF tok.neg THEN -n ELSE n

(***************************************************************************)
(* class NoiseDosage                          noise_dosage/generate.py     *)
(***************************************************************************)
\* the outcome of a call is the value returned or the exception raised
Raise(e) == [err |-> e]

None == [err |-> "none"]

Raised(r) == "err" \in DOMAIN r /\ r # None

IsInstance(r) == "err" \notin DOMAIN r

AllOfType(list, ty) == \A x \in DOMAIN list : list[x].ty = ty

Values(list) == [x \in DOMAIN list |-> list[x].v]

\* __init__ with every assert stripped (python -O)
NoiseDosageInitNoAssert(name, m, n, alpha, d, t, total_hours) ==
    [name |-> name, m |-> m.v, n |-> n.v, alpha |-> Values(alpha),
     d |-> Values(d), t |-> Values(t), total_hours |-> total_hours]

\* line 12-42: the instance, or AssertionError. Line 40 evaluates
\* isinstance(total_hours, int) and drops the result: total_hours is stored
\* whatever its type, so the field keeps the Python value.
NoiseDosageInit(name, m, n, alpha, d, t, total_hours) ==
    IF /\ m.ty = "int"
       /\ n.ty = "int"
       /\ Len(alpha) = m.v /\ AllOfType(alpha, "float")
       /\ Len(d) = m.v /\ AllOfType(d, "int")
       /\ Len(t) = m.v /\ AllOfType(t, "float")
      THEN [name |-> name, m |-> m.v, n |-> n.v, alpha |-> Values(alpha),
            d |-> Values(d), t |-> Values(t), total_hours |-> total_hours]
      ELSE Raise("AssertionError")

\* line 44-49: the five lines written, each a sequence of fields
Write(inst) ==
    << <<Str(PyInt(inst.m)), Str(PyInt(inst.n))>>,
       [x \in DOMAIN inst.alpha |-> FormatE(inst.alpha[x])],
       [x \in DOMAIN inst.d |-> Str(PyInt(inst.d[x]))],
       [x \in DOMAIN inst.t |-> FormatE(inst.t[x])],
       <<Str(inst.total_hours)>> >>

\* line 52-60: lines[l].strip().split() is the field sequence lines[l + 1]
read_noise_dosage(stem, lines) ==
    IF Len(lines) < 1 THEN Raise("IndexError")
    ELSE IF Len(lines[1]) # 2 \/ \E x \in DOMAIN lines[1] : ~IntOk(lines[1][x])
      THEN Raise("ValueError")
    ELSE IF Len(lines) < 2 THEN Raise("IndexError")
    ELSE IF \E x \in DOMAIN lines[2] : ~FloatOk(lines[2][x]) THEN Raise("ValueError")
    ELSE IF Len(lines) < 3 THEN Raise("IndexError")
    ELSE IF \E x \in DOMAIN lines[3] : ~IntOk(lines[3][x]) THEN Raise("ValueError")
    ELSE IF Len(lines) < 4 THEN Raise("IndexError")
    ELSE IF \E x \in DOMAIN lines[4] : ~FloatOk(lines[4][x]) THEN Raise("ValueError")
    ELSE IF Len(lines) < 5 THEN Raise("IndexError")
    ELSE IF Len(lines[5]) # 1 \/ ~IntOk(lines[5][1]) THEN Raise("ValueError")
    ELSE NoiseDosageInit(stem,
            PyInt(lines[1][1].v), PyInt(lines[1][2].v),
            [x \in DOMAIN lines[2] |-> PyFloat(Float(lines[2][x]))],
            [x \in DOMAIN lines[3] |-> PyInt(lines[3][x].v)],
            [x \in DOMAIN lines[4] |-> PyFloat(Float(lines[4][x]))],
            PyInt(lines[5][1].v))

\* the data-model invariants of an instance
DataModelInvariants(inst) ==
    /\ Len(inst.alpha) = inst.m /\ Len(inst.d) = inst.m /\ Len(inst.t) = inst.m
    /\ \A x \in DOMAIN inst.alpha : inst.alpha[x] >= 0
    /\ \A x \in DOMAIN inst.t : inst.t[x] >= 0
    /\ inst.total_hours.ty = "int"
    /\ inst.total_hours.v > 0

(***************************************************************************)
(* Constructing, writing, editing and reading back an instance file        *)
(***************************************************************************)
ListsOver(S) == UNION {[1..l -> S] : l \in 0..MaxMach}

AlphaArgs == {PyFloat(123456750), PyFloat(-4000), PyInt(18)}
DArgs == {PyInt(4), PyFloat(4000)}
TArgs == {PyFloat(999999995), PyFloat(0)}
HoursArgs == {PyInt(480), PyInt(0), PyFloat(2500)}

IoInit ==
    /\ io_args \in [name : {"inst"},
                    m : {PyInt(c) : c \in 0..MaxMach} \cup {PyFloat(1000)},
                    n : {PyInt(2), PyFloat(2000)},
                    alpha : ListsOver(AlphaArgs),
                    d : ListsOver(DArgs),
                    t : ListsOver(TArgs),
                    total_hours : HoursArgs]
    /\ io_inst = None
    /\ io_file = <<>>
    /\ io_edits = 0
    /\ io_read = None
    /\ io_pc = "construct"

IoIdle ==
    /\ io_args = None
    /\ io_inst = None
    /\ io_file = <<>>
    /\ io_edits = 0
    /\ io_read = None
    /\ io_pc = "idle"

\* NoiseDosage(name, m, n, alpha, d, t, total_hours)
IoConstruct ==
    /\ io_pc = "construct"
    /\ io_inst' = NoiseDosageInit(io_args.name, io_args.m, io_args.n, io_args.alpha,
                                  io_args.d, io_args.t, io_args.total_hours)
    /\ io_pc' = IF Raised(io_inst') THEN "done" ELSE "write"
    /\ UNCHANGED <<io_args, io_file, io_edits, io_read>>
    /\ UNCHANGED <<ssVars, cdVars, ndVars, giVars, bdVars>>

\* with open(instpath, "w") as f: inst.write(f)
IoWrite ==
    /\ io_pc = "write"
    /\ io_file' = Write(io_inst)
    /\ io_pc' = "file"
    /\ UNCHANGED <<io_args, io_inst, io_edits, io_read>>
    /\ UNCHANGED <<ssVars, cdVars, ndVars, giVars, bdVars>>

RemoveAt(seq, p) == [x \in 1..(Len(seq) - 1) |-> IF x < p THEN seq[x] ELSE seq[x + 1]]

\* the file is edited by hand or damaged before it is read: a line is lost,
\* a field is lost, added or replaced by text that is no number, or a line
\* is added at the end
IoEdit ==
    /\ io_pc = "file"
    /\ io_edits < MaxEdits
    /\ \/ \E l \in DOMAIN io_file : io_file' = RemoveAt(io_file, l)
       \/ \E l \in DOMAIN io_file : \E p \in DOMAIN io_file[l] :
             io_file' = [io_file EXCEPT ![l] = RemoveAt(@, p)]
       \/ \E l \in DOMAIN io_file :
             io_file' = [io_file EXCEPT ![l] = Append(@, Str(PyInt(1)))]
       \/ \E l \in DOMAIN io_file : \E p \in DOMAIN io_file[l] :
             io_file' = [io_file EXCEPT ![l][p] = Junk]
       \/ io_file' = Append(io_file, <<Str(PyInt(1))>>)
    /\ io_edits' = io_edits + 1
    /\ UNCHANGED <<io_args, io_inst, io_read, io_pc>>
    /\ UNCHANGED <<ssVars, cdVars, ndVars, giVars, bdVars>>

\* read_noise_dosage(path)
IoRead ==
    /\ io_pc = "file"
    /\ io_read' = read_noise_dosage(io_inst.name, io_file)
    /\ io_pc' = "done"
    /\ UNCHANGED <<io_args, io_inst, io_file, io_edits>>
    /\ UNCHANGED <<ssVars, cdVars, ndVars, giVars, bdVars>>

IoNext == IoConstruct \/ IoWrite \/ IoEdit \/ IoRead

\* alpha/t of the instance read back agree with the original within
\* relative error 1e-6
Close(x, y) == Abs(x - y) * 1000000 <= Abs(x)

SameInstance(a, b) ==
    /\ a.m = b.m /\ a.n = b.n /\ a.d = b.d
    /\ a.total_hours = b.total_hours
    /\ Len(a.alpha) = Len(b.alpha) /\ Len(a.t) = Len(b.t)
    /\ \A x \in DOMAIN a.alpha : Close(a.alpha[x], b.alpha[x])
    /\ \A x \in DOMAIN a.t : Close(a.t[x], b.t[x])

\* C3: every instance the constructor accepted, written and read back
\* unedited, comes back as an instance with identical m, n, d, total_hours
\* and alpha, t within relative error 1e-6.
C3_RoundTrip ==
    (io_pc = "done" /\ IsInstance(io_inst) /\ io_edits = 0) =>
        IsInstance(io_read) /\ SameInstance(io_inst, io_read)

\* the part of C3 the code keeps: the round trip of an instance whose
\* total_hours is an int
C3_RoundTripIntHours ==
    (io_pc = "done" /\ IsInstance(io_inst) /\ io_edits = 0
        /\ io_inst.total_hours.ty = "int") =>
        IsInstance(io_read) /\ SameInstance(io_inst, io_read)

\* a value with more than seven digits came back changed, yet close
C3_RoundingSeen ==
    /\ io_pc = "done" /\ io_edits = 0 /\ IsInstance(io_read)
    /\ \E x \in DOMAIN io_inst.alpha : io_read.alpha[x] # io_inst.alpha[x]

\* a file that departs from the five-line layout: a line is missing, a field
\* is no number, or a line has the wrong number of fields (two on line 1, m
\* on lines 2 to 4 with m the integer line 1 starts with, one on line 5)
Malformed(lines) ==
    \/ Len(lines) < 5
    \/ \E l \in 1..5 : \E p \in DOMAIN lines[l] : lines[l][p].k = "junk"
    \/ Len(lines[1]) # 2
    \/ ~IntOk(lines[1][1])
    \/ \E l \in 2..4 : Len(lines[l]) # lines[1][1].v
    \/ Len(lines[5]) # 1

\* C8: reading a file with a missing line, a line with the wrong number of
\* fields or a non-numeric field ends in an error, never in an instance.
C8_MalformedFails ==
    (io_pc = "done" /\ io_read # None /\ Malformed(io_file)) =>
        Raised(io_read)

\* a file whose list line lost a field was read and rejected by the
\* constructor's length assertion
C8_Witness ==
    /\ io_pc = "done"
    /\ io_edits > 0
    /\ Malformed(io_file)
    /\ Len(io_file) = 5
    /\ io_read = Raise("AssertionError")

\* C10: every NoiseDosage instance that exists, constructed directly or
\* read from a file, satisfies the data-model invariants.
C10_InstancesValid ==
    /\ IsInstance(io_inst) => DataModelInvariants(io_inst)
    /\ IsInstance(io_read) => DataModelInvariants(io_read)

(***************************************************************************)
(* generate_noise_dosage(inst, with_sherali_smith_symhandling)             *)
(*                                            noise_dosage/generate.py     *)
(* A linear constraint  sum coef[i,j]*x[i,j] + zc*z  sense  rhs  is the    *)
(* record [coef, zc, sense, rhs]; machines i and workers j are 0-based as  *)
(* in the code, lists are 1-based (alpha[i] is inst.alpha[i + 1]).         *)
(***************************************************************************)
Machines(inst) == 0..(inst.m - 1)
Workers(inst) == 0..(inst.n - 1)
Idx(inst) == Machines(inst) \X Workers(inst)

\* line 77-81: x[i, j] = addVar(vtype="I", lb=0.0)
XVars(inst) == [idx |-> Idx(inst), vtype |-> "I", lb |-> 0]

\* line 83: z = addVar(vtype="C", lb=0.0)
ZVar == [vtype |-> "C", lb |-> 0]

\* line 85-86: z >= quicksum(alpha[i] * x[i, j] for i), for the worker j
DosageCons(inst, j) ==
    [coef |-> [p \in Idx(inst) |-> IF p[2] = j THEN -inst.alpha[p[1] + 1] ELSE 0],
     zc |-> 1, sense |-> ">=", rhs |-> 0]

\* line 88-89: quicksum(x[i, j] for j) == d[i], for the machine i
DemandCons(inst, i) ==
    [coef |-> [p \in Idx(inst) |-> IF p[1] = i THEN 1 ELSE 0],
     zc |-> 0, sense |-> "==", rhs |-> inst.d[i + 1]]

\* the hour constraint written with alpha in place of t
HoursConsAlpha(inst, j) ==
    [coef |-> [p \in Idx(inst) |-> IF p[2] = j THEN inst.alpha[p[1] + 1] ELSE 0],
     zc |-> 0, sense |-> "<=", rhs |-> inst.total_hours.v]

\* line 91-92: quicksum(t[i] * x[i, j] for i) <= total_hours, for the worker j
HoursCons(inst, j) ==
    [coef |-> [p \in Idx(inst) |-> IF p[2] = j THEN inst.t[p[1] + 1] ELSE 0],
     zc |-> 0, sense |-> "<=", rhs |-> inst.total_hours.v]

Min2(a, b) == IF a < b THEN a ELSE b

MaxOf(S) == CHOOSE x \in S : \A y \in S : y <= x

MinOf(S) == CHOOSE x \in S : \A y \in S : x <= y

RECURSIVE Power(_, _)
Power(b, e) == IF e = 0 THEN 1 ELSE b * Power(b, e - 1)

\* line 96-100: u = {i: min(total_hours // t[i], d[i])}, M = max(u.values()) + 1
\* total_hours // 0.0 raises ZeroDivisionError, max() of no value ValueError
BigM(inst) ==
    IF \E i \in Machines(inst) : inst.t[i + 1] = 0 THEN Raise("ZeroDivisionError")
    ELSE IF inst.m = 0 THEN Raise("ValueError")
    ELSE [val |-> 1 + MaxOf({Min2(inst.total_hours.v \div inst.t[i + 1], inst.d[i + 1]) :
                                i \in Machines(inst)})]

\* line 102-105: quicksum(M**i * x[i, j]) >= quicksum(M**i * x[i, j + 1])
SymCons(inst, M, j) ==
    [coef |-> [p \in Idx(inst) |->
                  IF p[2] = j THEN Power(M, p[1])
                  ELSE IF p[2] = j + 1 THEN -Power(M, p[1])
                  ELSE 0],
     zc |-> 0, sense |-> ">=", rhs |-> 0]

\* line 85-92: the constraints in the order they are added
PlainCons(inst) ==
    [c \in 1..inst.n |-> DosageCons(inst, c - 1)]
        \o [c \in 1..inst.m |-> DemandCons(inst, c - 1)]
        \o [c \in 1..inst.n |-> HoursCons(inst, c - 1)]

\* line 75-109
generate_noise_dosage(inst, with_sherali_smith_symhandling) ==
    LET base == [name |-> inst.name, x |-> XVars(inst), z |-> ZVar,
                 cons |-> PlainCons(inst),
                 obj |-> [var |-> "z", sense |-> "minimize"], M |-> 0]
    IN  IF ~with_sherali_smith_symhandling THEN base
        ELSE LET M == BigM(inst)
             IN  IF Raised(M) THEN M
                 ELSE [base EXCEPT
                         !.cons = @ \o [c \in 1..(inst.n - 1) |->
                                          SymCons(inst, M.val, c - 1)],
                         !.M = M.val]

\* the machines an instance is made of: (alpha, d, t) of a loud machine with
\* short cycles, a quiet one with long cycles and one whose cycles take no
\* time
MachineKinds == {<<3, 2, 1>>, <<1, 1, 2>>, <<2, 1, 0>>}

NdInstances ==
    {[name |-> "inst", m |-> Len(ms), n |-> n,
      alpha |-> [x \in DOMAIN ms |-> ms[x][1]],
      d |-> [x \in DOMAIN ms |-> ms[x][2]],
      t |-> [x \in DOMAIN ms |-> ms[x][3]],
      total_hours |-> PyInt(h)] :
        ms \in UNION {[1..l -> MachineKinds] : l \in 1..MaxMachines},
        n \in 1..MaxWorkers, h \in 1..MaxHours}

NdInit ==
    /\ nd_inst \in NdInstances
    /\ nd_plain = None
    /\ nd_sym = None
    /\ nd_pc = "plain"

NdIdle ==
    /\ nd_inst = None
    /\ nd_plain = None
    /\ nd_sym = None
    /\ nd_pc = "idle"

\* line 133-134: model = generate_noise_dosage(inst)
NdBuildPlain ==
    /\ nd_pc = "plain"
    /\ nd_plain' = generate_noise_dosage(nd_inst, FALSE)
    /\ nd_pc' = "sym"
    /\ UNCHANGED <<nd_inst, nd_sym>>
    /\ UNCHANGED <<ssVars, cdVars, ioVars, giVars, bdVars>>

\* line 141-142: model = generate_noise_dosage(inst, True)
NdBuildSym ==
    /\ nd_pc = "sym"
    /\ nd_sym' = generate_noise_dosage(nd_inst, TRUE)
    /\ nd_pc' = "done"
    /\ UNCHANGED <<nd_inst, nd_plain>>
    /\ UNCHANGED <<ssVars, cdVars, ioVars, giVars, bdVars>>

NdNext == NdBuildPlain \/ NdBuildSym

(***************************************************************************)
(* What a solver makes of a built model                                    *)
(***************************************************************************)
RECURSIVE SumOver(_, _, _)
\* sum of coef[p] * x[p] over the index pairs of S
SumOver(S, coef, x) ==
    IF S = {} THEN 0
    ELSE LET p == CHOOSE q \in S : TRUE
         IN  coef[p] * x[p] + SumOver(S \ {p}, coef, x)

Holds(c, x, z) ==
    LET lhs == SumOver(DOMAIN c.coef, c.coef, x) + c.zc * z
    IN  CASE c.sense = ">=" -> lhs >= c.rhs
          [] c.sense = "<=" -> lhs <= c.rhs
          [] c.sense = "==" -> lhs = c.rhs

RECURSIVE XRows(_, _)
\* one row of candidate values per machine, for the first k machines
XRows(inst, k) ==
    IF k = 0 THEN {<<>>}
    ELSE {Append(pre, row) : pre \in XRows(inst, k - 1),
                             row \in [Workers(inst) -> 0..inst.d[k]]}

\* the candidate assignments: no x[i,j] exceeds the demand d[i] in a
\* solution; z need not exceed the dosage of a worker doing everything
XDomain(inst) ==
    {[p \in Idx(inst) |-> rows[p[1] + 1][p[2]]] : rows \in XRows(inst, inst.m)}

ZTop(inst) == SumOver(1..inst.m, inst.alpha, inst.d)

\* the assignments satisfying the constraints without z, the equalities first
FeasibleX(model, inst) ==
    LET eqs == {c \in DOMAIN model.cons : model.cons[c].sense = "=="}
        rest == {c \in DOMAIN model.cons :
                    model.cons[c].sense # "==" /\ model.cons[c].zc = 0}
    IN  {x \in XDomain(inst) :
            /\ \A c \in eqs : Holds(model.cons[c], x, 0)
            /\ \A c \in rest : Holds(model.cons[c], x, 0)}

\* the least z >= lb that the constraints with z allow for the assignment x
LeastZ(model, inst, x) ==
    LET zs == {c \in DOMAIN model.cons : model.cons[c].zc # 0}
    IN  MinOf({z \in model.z.lb..ZTop(inst) :
                  \A c \in zs : Holds(model.cons[c], x, z)})

\* the optimal objective value, -1 for an infeasible model
Optimum(model, inst) ==
    LET F == FeasibleX(model, inst)
    IN  IF F = {} THEN -1
        ELSE MinOf({LeastZ(model, inst, x) : x \in F})

\* the problem as stated: distribute every machine's d[i] cycles within every
\* worker's hour budget so that the largest per-worker dosage is least
Dosage(inst, x, j) ==
    SumOver(Machines(inst), [i \in Machines(inst) |-> inst.alpha[i + 1]],
            [i \in Machines(inst) |-> x[<<i, j>>]])

Hours(inst, x, j) ==
    SumOver(Machines(inst), [i \in Machines(inst) |-> inst.t[i + 1]],
            [i \in Machines(inst) |-> x[<<i, j>>]])

Assigned(inst, x, i) ==
    SumOver(Workers(inst), [j \in Workers(inst) |-> 1],
            [j \in Workers(inst) |-> x[<<i, j>>]])

Schedules(inst) ==
    {x \in XDomain(inst) :
        /\ \A i \in Machines(inst) : Assigned(inst, x, i) = inst.d[i + 1]
        /\ \A j \in Workers(inst) : Hours(inst, x, j) <= inst.total_hours.v}

MiniMax(inst) ==
    IF Schedules(inst) = {} THEN -1
    ELSE MinOf({MaxOf({Dosage(inst, x, j) : j \in Workers(inst)}) :
                   x \in Schedules(inst)})

CountCons(model, sense, zc) ==
    Cardinality({c \in DOMAIN model.cons :
                    model.cons[c].sense = sense /\ model.cons[c].zc = zc})

\* C5: the model built without symmetry handling has m*n integer variables
\* x[i,j] >= 0 and a continuous z >= 0, n constraints bounding each worker's
\* dosage by z, m equalities distributing each machine's cycles, n hour
\* budget constraints and minimises z; its optimum is the least possible
\* largest per-worker dosage (and it is infeasible exactly when no schedule
\* exists).
C5_Formulation ==
    nd_pc \in {"sym", "done"} =>
        /\ nd_plain.x = [idx |-> Idx(nd_inst), vtype |-> "I", lb |-> 0]
        /\ Cardinality(nd_plain.x.idx) = nd_inst.m * nd_inst.n
        /\ nd_plain.z = [vtype |-> "C", lb |-> 0]
        /\ Len(nd_plain.cons) = 2 * nd_inst.n + nd_inst.m
        /\ CountCons(nd_plain, ">=", 1) = nd_inst.n
        /\ CountCons(nd_plain, "==", 0) = nd_inst.m
        /\ CountCons(nd_plain, "<=", 0) = nd_inst.n
        /\ nd_plain.obj = [var |-> "z", sense |-> "minimize"]
        /\ Optimum(nd_plain, nd_inst) = MiniMax(nd_inst)

\* a built model of two machines and two workers in which the hour budget
\* forces the work to be shared
C5_Witness ==
    /\ nd_pc = "done"
    /\ nd_inst.m = 2 /\ nd_inst.n = 2
    /\ Optimum(nd_plain, nd_inst) > 0
    /\ \E x \in XDomain(nd_inst) :
          /\ \A i \in Machines(nd_inst) : Assigned(nd_inst, x, i) = nd_inst.d[i + 1]
          /\ x \notin Schedules(nd_inst)

\* C4: whenever the model without symmetry handling is feasible, the model
\* with it is built, is feasible and has the same optimal z.
C4_SymmetryPreservesOptimum ==
    (nd_pc = "done" /\ Optimum(nd_plain, nd_inst) # -1) =>
        /\ ~Raised(nd_sym)
        /\ Optimum(nd_sym, nd_inst) = Optimum(nd_plain, nd_inst)

\* the part of C4 the code keeps: when the model with symmetry handling is
\* built, it has the optimum of the model without
C4_WhenBuilt ==
    (nd_pc = "done" /\ ~Raised(nd_sym)) =>
        Optimum(nd_sym, nd_inst) = Optimum(nd_plain, nd_inst)

\* the columns of x compared lexicographically, the last machine first
RECURSIVE LexGeq(_, _, _, _)
LexGeq(x, i, j1, j2) ==
    IF i < 0 THEN TRUE
    ELSE IF x[<<i, j1>>] # x[<<i, j2>>] THEN x[<<i, j1>>] > x[<<i, j2>>]
    ELSE LexGeq(x, i - 1, j1, j2)

\* C9: for every instance satisfying the data-model invariants the build with
\* symmetry handling computes M without failing, M exceeds x[i,j] in every
\* feasible solution, and the weighted comparison of two adjacent workers is
\* the lexicographic comparison of their assignment vectors.
C9_BaseExceedsBound ==
    nd_pc = "done" =>
        /\ ~Raised(nd_sym)
        /\ \A x \in FeasibleX(nd_plain, nd_inst) :
              /\ \A p \in Idx(nd_inst) : x[p] < nd_sym.M
              /\ \A j \in 0..(nd_inst.n - 2) :
                    Holds(SymCons(nd_inst, nd_sym.M, j), x, 0)
                        <=> LexGeq(x, nd_inst.m - 1, j, j + 1)

\* the part of C9 the code keeps: when the build succeeds
C9_WhenBuilt ==
    (nd_pc = "done" /\ ~Raised(nd_sym)) =>
        \A x \in FeasibleX(nd_plain, nd_inst) :
              /\ \A p \in Idx(nd_inst) : x[p] < nd_sym.M
              /\ \A j \in 0..(nd_inst.n - 2) :
                    Holds(SymCons(nd_inst, nd_sym.M, j), x, 0)
                        <=> LexGeq(x, nd_inst.m - 1, j, j + 1)

(***************************************************************************)
(* generate_instance(n_machines, n_workers, worker_hours, seed)            *)
(*                                      noise_dosage/data_generator.py     *)
(* A random source is a state; a draw advances it and yields a number of   *)
(* 0..RngMod-1, the quantile random() returns (0 stands for 0.0).          *)
(* NormalDist.inv_cdf is the table ZTenths of z-scores, in tenths, from    *)
(* the far lower tail to the upper tail; floats count thousandths.         *)
(***************************************************************************)
ZTenths == <<-60, -20, -10, -5, 0, 5, 10, 20>>

RngMod == Len(ZTenths) + 1

\* random.Random(seed): the state the seed determines
Seeded(seed) == (7 * seed + 2) % RngMod

\* one draw: the next state, which is also the number drawn
Draw(state) == (4 * state + 1) % RngMod

\* a generator that draws from the global random source of the random module
RgenGlobal(seed, global) == global

\* line 18: rgen = random.Random(seed)
Rgen(seed, global) == Seeded(seed)

\* line 21: rgen.randint(4, 10) from the number drawn
RandInt(o) == 4 + (o % 7)

RECURSIVE SumSeq(_, _)
SumSeq(list, k) == IF k = 0 THEN 0 ELSE list[k] + SumSeq(list, k - 1)

\* line 15-16, 25-26: mean_job_duration, in thousandths
MeanJobDuration(args, d) ==
    (args.n_workers * args.worker_hours * 500) \div SumSeq(d, Len(d))

\* line 27, 28, 33: dist.inv_cdf(p) for NormalDist(mu=mean, sigma=mean * .2)
JobDuration(mean, o) == mean + ((mean \div 5) * ZTenths[o]) \div 10

\* line 39, 44: dist.inv_cdf(p) for NormalDist(mu=18, sigma=4)
NoiseUnits(o) == 18000 + 400 * ZTenths[o]

\* line 13: the name, as the tuple of the values formatted into it
InstanceName(args) ==
    <<"noise", args.n_machines, args.n_workers, args.worker_hours, "s", args.seed>>

GiInit ==
    /\ gi_args \in [n_machines : 0..MaxGenMachines, n_workers : 1..2,
                    worker_hours : {8, 480}, seed : 0..MaxSeed]
    /\ gi_global \in 0..(RngMod - 1)
    /\ gi_other = 0
    /\ gi_call = 1
    /\ gi_rgen = 0
    /\ gi_d = <<>>
    /\ gi_t = <<>>
    /\ gi_alpha = <<>>
    /\ gi_pc = "start"
    /\ gi_out = <<>>
    /\ gi_files = <<>>

GiIdle ==
    /\ gi_args = None
    /\ gi_global = 0
    /\ gi_other = 0
    /\ gi_call = 0
    /\ gi_rgen = 0
    /\ gi_d = <<>>
    /\ gi_t = <<>>
    /\ gi_alpha = <<>>
    /\ gi_pc = "idle"
    /\ gi_out = <<>>
    /\ gi_files = <<>>

GiOthers == <<ssVars, cdVars, ioVars, ndVars, bdVars>>

\* the call ends: its outcome is recorded and the next call, if any, starts
GiReturn(outcome, files) ==
    /\ gi_out' = Append(gi_out, outcome)
    /\ gi_files' = files
    /\ gi_pc' = IF gi_call = 2 THEN "done" ELSE "start"
    /\ gi_call' = IF gi_call = 2 THEN gi_call ELSE gi_call + 1

\* line 13-18
GiSeed ==
    /\ gi_pc = "start"
    /\ gi_rgen' = Rgen(gi_args.seed, gi_global)
    /\ gi_d' = <<>>
    /\ gi_t' = <<>>
    /\ gi_alpha' = <<>>
    /\ gi_pc' = "d"
    /\ UNCHANGED <<gi_args, gi_global, gi_other, gi_call, gi_out, gi_files>>
    /\ UNCHANGED GiOthers

\* line 21: one element of d  /  line 25-28: the job duration distribution,
\* ZeroDivisionError when there is no job
GiDrawD ==
    /\ gi_pc = "d"
    /\ IF Len(gi_d) < gi_args.n_machines
         THEN /\ gi_rgen' = Draw(gi_rgen)
              /\ gi_d' = Append(gi_d, RandInt(gi_rgen'))
              /\ UNCHANGED <<gi_pc, gi_call, gi_out, gi_files>>
         ELSE IF SumSeq(gi_d, Len(gi_d)) = 0
                THEN /\ GiReturn(Raise("ZeroDivisionError"), gi_files)
                     /\ UNCHANGED <<gi_rgen, gi_d>>
                ELSE /\ gi_pc' = "t"
                     /\ UNCHANGED <<gi_rgen, gi_d, gi_call, gi_out, gi_files>>
    /\ UNCHANGED <<gi_args, gi_global, gi_other, gi_t, gi_alpha>>
    /\ UNCHANGED GiOthers

\* line 30-36: one draw of get_random_job_duration; a negative result is
\* drawn again; inv_cdf(0.0) raises StatisticsError
GiDrawT ==
    /\ gi_pc = "t"
    /\ IF Len(gi_t) < gi_args.n_machines
         THEN /\ gi_rgen' = Draw(gi_rgen)
              /\ IF gi_rgen' = 0
                   THEN /\ GiReturn(Raise("StatisticsError"), gi_files)
                        /\ UNCHANGED gi_t
                   ELSE LET ret == JobDuration(MeanJobDuration(gi_args, gi_d), gi_rgen')
                        IN  /\ gi_t' = IF ret < 0 THEN gi_t ELSE Append(gi_t, ret)
                            /\ UNCHANGED <<gi_pc, gi_call, gi_out, gi_files>>
         ELSE /\ gi_pc' = "alpha"
              /\ UNCHANGED <<gi_rgen, gi_t, gi_call, gi_out, gi_files>>
    /\ UNCHANGED <<gi_args, gi_global, gi_other, gi_d, gi_alpha>>
    /\ UNCHANGED GiOthers

\* line 39-47: one draw of get_random_noise_dosage
GiDrawAlpha ==
    /\ gi_pc = "alpha"
    /\ IF Len(gi_alpha) < gi_args.n_machines
         THEN /\ gi_rgen' = Draw(gi_rgen)
              /\ IF gi_rgen' = 0
                   THEN /\ GiReturn(Raise("StatisticsError"), gi_files)
                        /\ UNCHANGED gi_alpha
                   ELSE LET ret == NoiseUnits(gi_rgen')
                        IN  /\ gi_alpha' = IF ret < 0 THEN gi_alpha
                                                      ELSE Append(gi_alpha, ret)
                            /\ UNCHANGED <<gi_pc, gi_call, gi_out, gi_files>>
         ELSE /\ gi_pc' = "construct"
              /\ UNCHANGED <<gi_rgen, gi_alpha, gi_call, gi_out, gi_files>>
    /\ UNCHANGED <<gi_args, gi_global, gi_other, gi_d, gi_t>>
    /\ UNCHANGED GiOthers

\* line 49-50, and the caller's lines 62-64: the instance is constructed,
\* returned and written to its file
GiConstruct ==
    /\ gi_pc = "construct"
    /\ LET inst == NoiseDosageInit(InstanceName(gi_args),
                       PyInt(gi_args.n_machines), PyInt(gi_args.n_workers),
                       [x \in DOMAIN gi_alpha |-> PyFloat(gi_alpha[x])],
                       [x \in DOMAIN gi_d |-> PyInt(gi_d[x])],
                       [x \in DOMAIN gi_t |-> PyFloat(gi_t[x])],
                       PyInt(gi_args.worker_hours))
       IN  GiReturn(inst, IF Raised(inst) THEN gi_files
                                          ELSE Append(gi_files, Write(inst)))
    /\ UNCHANGED <<gi_args, gi_global, gi_other, gi_rgen, gi_d, gi_t, gi_alpha>>
    /\ UNCHANGED GiOthers

\* other code draws from the random module's global source, before or
\* between the calls
GiOtherRandomUse ==
    /\ gi_pc # "done"
    /\ gi_other < MaxOtherDraws
    /\ gi_global' = Draw(gi_global)
    /\ gi_other' = gi_other + 1
    /\ UNCHANGED <<gi_args, gi_call, gi_rgen, gi_d, gi_t, gi_alpha, gi_pc, gi_out,
                   gi_files>>
    /\ UNCHANGED GiOthers

GiNext ==
    GiSeed \/ GiDrawD \/ GiDrawT \/ GiDrawAlpha \/ GiConstruct \/ GiOtherRandomUse

\* C7: two calls of generate_instance with the same arguments end alike,
\* with instances of identical name, d, t and alpha, whatever is drawn from
\* the global random source before or between them; the files written from
\* them are identical.
C7_Deterministic ==
    gi_pc = "done" =>
        /\ gi_out[1] = gi_out[2]
        /\ IsInstance(gi_out[1]) => Len(gi_files) = 2 /\ gi_files[1] = gi_files[2]

\* both calls returned an instance of two machines although the global
\* source was used in between
C7_Witness ==
    /\ gi_pc = "done"
    /\ IsInstance(gi_out[1]) /\ IsInstance(gi_out[2])
    /\ gi_out[1].m = 2
    /\ gi_other > 0

\* the instances generate_instance returns satisfy the data-model invariants
C10_GeneratedValid ==
    \A c \in DOMAIN gi_out : IsInstance(gi_out[c]) => DataModelInvariants(gi_out[c])

(***************************************************************************)
(* The batch drivers (the __main__ blocks of the three generators)         *)
(* The output directory is a function from the paths the driver can write  *)
(* to the file's content, Absent for no file; bd_writes counts the writes  *)
(* to each path.  A written model or instance is named by what it was      *)
(* built from.  A run may be interrupted and the driver run again.         *)
(***************************************************************************)
Absent == <<>>

\* writepath.exists() with the check left out
ExistsNever(fs, path) == FALSE

\* covering_designs line 56, noise_dosage/generate.py line 132, 140:
\* writepath.exists()
Exists(fs, path) == fs[path] # Absent

\* covering_designs line 51: lambs = list(range(2, 4))
Lambs == <<2, 3>>

\* covering_designs line 52: vs = ks = ts = list(range(1, 13)), cut short
BatchVs == 1..MaxBatchV

\* covering_designs line 54: the tuples of itertools.product(lambs, vs, ks,
\* ts) in order, the last factor running fastest
CovItem(pos) ==
    LET V == MaxBatchV
    IN  [lamb |-> Lambs[(pos \div (V * V * V)) + 1],
         v |-> ((pos \div (V * V)) % V) + 1,
         k |-> ((pos \div V) % V) + 1,
         t |-> (pos % V) + 1]

CovCount == Len(Lambs) * MaxBatchV * MaxBatchV * MaxBatchV

\* covering_designs line 55: f"cov_{lamb}({v},{k},{t}).cip"
CovPath(it) == <<"cov", it.lamb, it.v, it.k, it.t>>

\* data_generator line 58-60: the (m, n, seed) of the nested loops in order
DataItem(pos) ==
    LET k == pos \div (MaxSeed + 1)
    IN  [m |-> k + 3, n |-> k + 8, seed |-> pos % (MaxSeed + 1)]

DataCount == MaxPairs * (MaxSeed + 1)

\* data_generator line 13, 62: output_path / inst.name
DataPath(it) == <<"noise", it.m, it.n, 480, it.seed>>

\* the entries of the data directory: two data files and a file with a suffix
DataDir == {"noise_a", "noise_b", "notes.txt"}

\* generate.py line 126: path.suffix
HasSuffix(entry) == entry = "notes.txt"

\* a data file holds an instance, an instance with a machine whose cycles
\* take no time, or text that is no instance
DataKinds == {"instance", "zero_t", "malformed"}

\* generate.py line 131, 139: f"{path.stem}.mps", f"{path.stem}_sym.mps"
ModelPath(entry, sym) == <<entry, sym>>

Paths(driver) ==
    CASE driver = "cov" -> {CovPath(CovItem(pos)) : pos \in 0..(CovCount - 1)}
      [] driver = "data" -> {DataPath(DataItem(pos)) : pos \in 0..(DataCount - 1)}
      [] driver = "model" -> {ModelPath(e, sym) : e \in DataDir, sym \in BOOLEAN}

BdInit ==
    /\ bd_driver \in {"cov", "data", "model"}
    /\ bd_data \in [DataDir -> DataKinds]
    /\ bd_driver # "model" => bd_data = [e \in DataDir |-> "instance"]
    /\ bd_fs = [p \in Paths(bd_driver) |-> Absent]
    /\ bd_writes = [p \in Paths(bd_driver) |-> 0]
    /\ bd_run = 0
    /\ bd_pos = 0
    /\ bd_todo = {}
    /\ bd_entry = "none"
    /\ bd_pc = "idle"

BdIdle ==
    /\ bd_driver = "none"
    /\ bd_data = <<>>
    /\ bd_fs = <<>>
    /\ bd_writes = <<>>
    /\ bd_run = 0
    /\ bd_pos = 0
    /\ bd_todo = {}
    /\ bd_entry = "none"
    /\ bd_pc = "off"

BdOthers == <<ssVars, cdVars, ioVars, ndVars, giVars>>

\* model.writeProblem(writepath) / open(instpath, "w") and write: the file
\* at path holds content afterwards
WriteFile(path, content) ==
    /\ bd_fs' = [bd_fs EXCEPT ![path] = content]
    /\ bd_writes' = [bd_writes EXCEPT ![path] = @ + 1]

\* the script is started: covering_designs line 47-52, generate.py line
\* 113-122, data_generator line 55-58
BdStart ==
    /\ bd_pc = "idle"
    /\ bd_run < MaxRuns
    /\ bd_run' = bd_run + 1
    /\ bd_pos' = 0
    /\ bd_todo' = IF bd_driver = "model" THEN DataDir ELSE {}
    /\ bd_entry' = "none"
    /\ bd_pc' = "loop"
    /\ UNCHANGED <<bd_driver, bd_data, bd_fs, bd_writes>>
    /\ UNCHANGED BdOthers

\* covering_designs line 54-68: one pass of the loop
CovIterate ==
    /\ bd_pc = "loop"
    /\ bd_driver = "cov"
    /\ IF bd_pos = CovCount
         THEN /\ bd_pc' = "idle"
              /\ UNCHANGED <<bd_pos, bd_fs, bd_writes>>
         ELSE LET it == CovItem(bd_pos)
              IN  /\ bd_pos' = bd_pos + 1
                  /\ UNCHANGED bd_pc
                  /\ IF Exists(bd_fs, CovPath(it)) \/ it.v <= it.k \/ it.k <= it.t
                       THEN UNCHANGED <<bd_fs, bd_writes>>
                       ELSE WriteFile(CovPath(it), <<"cip", it.lamb, it.v, it.k, it.t>>)
    /\ UNCHANGED <<bd_driver, bd_data, bd_run, bd_todo, bd_entry>>
    /\ UNCHANGED BdOthers

\* data_generator line 59-64: one pass of the inner loop; the file is
\* opened for writing whether it exists or not
DataIterate ==
    /\ bd_pc = "loop"
    /\ bd_driver = "data"
    /\ IF bd_pos = DataCount
         THEN /\ bd_pc' = "idle"
              /\ UNCHANGED <<bd_pos, bd_fs, bd_writes>>
         ELSE LET it == DataItem(bd_pos)
              IN  /\ bd_pos' = bd_pos + 1
                  /\ UNCHANGED bd_pc
                  /\ WriteFile(DataPath(it), <<"instance", it.m, it.n, 480, it.seed>>)
    /\ UNCHANGED <<bd_driver, bd_data, bd_run, bd_todo, bd_entry>>
    /\ UNCHANGED BdOthers

\* generate.py line 125-128: the next entry of data_path.iterdir(), in any
\* order; an entry with a suffix is passed over
ModelNextEntry ==
    /\ bd_pc = "loop"
    /\ bd_driver = "model"
    /\ IF bd_todo = {}
         THEN /\ bd_pc' = "idle"
              /\ UNCHANGED <<bd_todo, bd_entry>>
         ELSE \E e \in bd_todo :
                /\ bd_todo' = bd_todo \ {e}
                /\ bd_entry' = e
                /\ bd_pc' = IF HasSuffix(e) THEN "loop" ELSE "plain"
    /\ UNCHANGED <<bd_driver, bd_data, bd_fs, bd_writes, bd_run, bd_pos>>
    /\ UNCHANGED BdOthers

\* generate.py line 131-135: read_noise_dosage raises on text that is no
\* instance, and the script ends
ModelPlain ==
    /\ bd_pc = "plain"
    /\ IF Exists(bd_fs, ModelPath(bd_entry, FALSE))
         THEN /\ bd_pc' = "sym"
              /\ UNCHANGED <<bd_fs, bd_writes>>
         ELSE IF bd_data[bd_entry] = "malformed"
                THEN /\ bd_pc' = "idle"
                     /\ UNCHANGED <<bd_fs, bd_writes>>
                ELSE /\ bd_pc' = "sym"
                     /\ WriteFile(ModelPath(bd_entry, FALSE),
                                  <<"mps", bd_data[bd_entry], FALSE>>)
    /\ UNCHANGED <<bd_driver, bd_data, bd_run, bd_pos, bd_todo, bd_entry>>
    /\ UNCHANGED BdOthers

\* generate.py line 139-143: generate_noise_dosage raises on a machine whose
\* cycles take no time, and the script ends
ModelSym ==
    /\ bd_pc = "sym"
    /\ IF Exists(bd_fs, ModelPath(bd_entry, TRUE))
         THEN /\ bd_pc' = "loop"
              /\ UNCHANGED <<bd_fs, bd_writes>>
         ELSE IF bd_data[bd_entry] \in {"malformed", "zero_t"}
                THEN /\ bd_pc' = "idle"
                     /\ UNCHANGED <<bd_fs, bd_writes>>
                ELSE /\ bd_pc' = "loop"
                     /\ WriteFile(ModelPath(bd_entry, TRUE),
                                  <<"mps", bd_data[bd_entry], TRUE>>)
    /\ UNCHANGED <<bd_driver, bd_data, bd_run, bd_pos, bd_todo, bd_entry>>
    /\ UNCHANGED BdOthers

\* the running script is stopped from outside between two steps
BdInterrupt ==
    /\ bd_pc \in {"loop", "plain", "sym"}
    /\ bd_pc' = "idle"
    /\ UNCHANGED <<bd_driver, bd_data, bd_fs, bd_writes, bd_run, bd_pos, bd_todo,
                   bd_entry>>
    /\ UNCHANGED BdOthers

BdNext ==
    BdStart \/ CovIterate \/ DataIterate \/ ModelNextEntry \/ ModelPlain
        \/ ModelSym \/ BdInterrupt

\* C6 as stated: in every batch driver a path at which a file is present is
\* never written again.
C6_NeverWrittenAgain ==
    [][\A p \in DOMAIN bd_fs : bd_fs[p] # Absent => bd_writes'[p] = bd_writes[p]]_vars

\* C6 as the code has it: the covering-design driver and the noise-dosage
\* model driver never write a path at which a file is present; the data
\* generator writes every output again on every run; in all three a file
\* that is present keeps its content.
C6_SkipExisting ==
    [][\A p \in DOMAIN bd_fs : bd_fs[p] # Absent =>
          /\ bd_fs'[p] = bd_fs[p]
          /\ bd_driver \in {"cov", "model"} => bd_writes'[p] = bd_writes[p]]_vars

\* a second run of a skipping driver passed over work done by the first
C6_Witness ==
    /\ bd_driver \in {"cov", "model"}
    /\ bd_run = 2
    /\ bd_pc = "idle"
    /\ \E p \in DOMAIN bd_fs : bd_fs[p] # Absent
    /\ \A p \in DOMAIN bd_fs : bd_writes[p] <= 1
    /\ bd_driver = "cov" => bd_pos = CovCount

(***************************************************************************)
(* Specifications                                                          *)
(***************************************************************************)
InitSubset == SsInit /\ CdIdle /\ IoIdle /\ NdIdle /\ GiIdle /\ BdIdle

SpecSubset == InitSubset /\ [][SsNext]_vars

InitCover == SsIdle /\ CdInit /\ IoIdle /\ NdIdle /\ GiIdle /\ BdIdle

SpecCover == InitCover /\ [][CdNext]_vars

InitIO == SsIdle /\ CdIdle /\ IoInit /\ NdIdle /\ GiIdle /\ BdIdle

SpecIO == InitIO /\ [][IoNext]_vars

InitModel == SsIdle /\ CdIdle /\ IoIdle /\ NdInit /\ GiIdle /\ BdIdle

SpecModel == InitModel /\ [][NdNext]_vars

InitGen == SsIdle /\ CdIdle /\ IoIdle /\ NdIdle /\ GiInit /\ BdIdle

SpecGen == InitGen /\ [][GiNext]_vars

InitBatch == SsIdle /\ CdIdle /\ IoIdle /\ NdIdle /\ GiIdle /\ BdInit

SpecBatch == InitBatch /\ [][BdNext]_vars

====
